---- MODULE Spec2Model ----
(***************************************************************************)
(* Model of the two narration scripts of Local CI/video/local-ci-voice:    *)
(*   generate_scene_narrations.py  (batch generator, prefix gsn_)          *)
(*   tts.py                        (single-utterance CLI, prefix tts_)     *)
(* A process executes one script from its first statement to termination.  *)
(* The filesystem outlives the process, so a script can be run again       *)
(* against what an earlier run left behind.                                *)
(*                                                                         *)
(* A Python str is a sequence of one-character strings.                    *)
(***************************************************************************)
EXTENDS Integers, Sequences, FiniteSets, TLC

\* ------------------------------------------------------------------ bounds
\* how many times the script is started against the same filesystem
MaxRuns ==
  2

\* length of the longest text argument tried on the command line
MaxTextLen ==
  85

\* ------------------------------------------------------- string literals
title_name ==
  <<"t","i","t","l","e">>

title_text ==
  <<"R","a","i","l","s"," ","8",".","1"," ","L","o","c","a","l"," ","C","I","."," ","S","t","a","n","d","a","r","d","i","z","e"," ","y","o","u","r"," ","t","e","s","t","i","n","g"," ","w","o","r","k","f","l","o","w",".">>

problem_name ==
  <<"p","r","o","b","l","e","m">>

problem_text ==
  <<"T","e","s","t","i","n","g"," ","i","n","c","o","n","s","i","s","t","e","n","c","i","e","s"," ","b","e","t","w","e","e","n"," ","l","o","c","a","l"," ","a","n","d"," ","C","I"," ","s","e","r","v","e","r","s"," ","c","a","u","s","e"," ","f","r","u","s","t","r","a","t","i","o","n"," ","a","n","d"," ","w","a","s","t","e","d"," ","t","i","m","e",".">>

solution_name ==
  <<"s","o","l","u","t","i","o","n">>

solution_text ==
  <<"R","a","i","l","s"," ","8",".","1"," ","i","n","t","r","o","d","u","c","e","s"," ","L","o","c","a","l"," ","C","I","."," ","O","n","e"," ","c","o","m","m","a","n","d",","," ","e","v","e","r","y","w","h","e","r","e","."," ","N","o"," ","d","u","p","l","i","c","a","t","i","o","n",".">>

demo_name ==
  <<"d","e","m","o">>

demo_text ==
  <<"R","u","n"," ","b","i","n"," ","s","l","a","s","h"," ","c","i","."," ","S","e","t","u","p",","," ","s","t","y","l","e"," ","c","h","e","c","k","s",","," ","s","e","c","u","r","i","t","y"," ","a","u","d","i","t","s",","," ","a","n","d"," ","t","e","s","t","s"," ","e","x","e","c","u","t","e"," ","i","n"," ","s","e","q","u","e","n","c","e"," ","w","i","t","h"," ","t","i","m","i","n","g",".">>

benefits_name ==
  <<"b","e","n","e","f","i","t","s">>

benefits_text ==
  <<"C","a","t","c","h"," ","i","s","s","u","e","s"," ","e","a","r","l","y","."," ","S","a","m","e"," ","w","o","r","k","f","l","o","w"," ","l","o","c","a","l","l","y"," ","a","n","d"," ","r","e","m","o","t","e","l","y","."," ","F","a","s","t","e","r"," ","d","e","v","e","l","o","p","m","e","n","t"," ","c","y","c","l","e","s",".">>

cta_name ==
  <<"c","t","a">>

cta_text ==
  <<"U","p","g","r","a","d","e"," ","t","o"," ","R","a","i","l","s"," ","8",".","1"," ","t","o","d","a","y"," ","a","n","d"," ","e","x","p","e","r","i","e","n","c","e"," ","s","t","a","n","d","a","r","d","i","z","e","d"," ","C","I"," ","w","o","r","k","f","l","o","w","s",".">>

scene_audio ==
  <<"s","c","e","n","e","_","a","u","d","i","o">>

dot_wav ==
  <<".","w","a","v">>

output_wav ==
  <<"o","u","t","p","u","t",".","w","a","v">>

hello_wav ==
  <<"h","e","l","l","o",".","w","a","v">>

sep ==
  <<"/">>

ellipsis ==
  <<".",".",".">>

hello_world ==
  <<"H","e","l","l","o"," ","w","o","r","l","d","!">>

tts_py ==
  <<"t","t","s",".","p","y">>

extra_arg ==
  <<"e","x","t","r","a">>

missing_hello_wav ==
  <<"m","i","s","s","i","n","g","/","h","e","l","l","o",".","w","a","v">>

\* --------------------------------------------------------- program tables
\* SCENES taken in sorted key order
SCENES_sorted ==
  << [name |-> benefits_name, text |-> benefits_text],
     [name |-> cta_name,      text |-> cta_text],
     [name |-> demo_name,     text |-> demo_text],
     [name |-> problem_name,  text |-> problem_text],
     [name |-> solution_name, text |-> solution_text],
     [name |-> title_name,    text |-> title_text] >>

\* SCENES, in insertion order (dict iteration order of .items() and .keys())
SCENES ==
  << [name |-> title_name,    text |-> title_text],
     [name |-> problem_name,  text |-> problem_text],
     [name |-> solution_name, text |-> solution_text],
     [name |-> demo_name,     text |-> demo_text],
     [name |-> benefits_name, text |-> benefits_text],
     [name |-> cta_name,      text |-> cta_text] >>

\* samplerate= argument of sf.write in the batch generator
gsn_samplerate ==
  24000

\* divisor of the duration in the batch generator
gsn_divisor ==
  24000

\* samplerate= argument of sf.write in the CLI
tts_samplerate ==
  24000

\* divisor of the duration in the CLI
tts_divisor ==
  24000

\* len(text) > 80 selects the shortened console line
tts_truncate_over ==
  80

\* text[:77]
tts_truncate_keep ==
  77

\* ----------------------------------------------------------------- inputs
Rep(n) ==
  [j \in 1..n |-> "a"]

\* text arguments tried: empty, short, at / just over / well over the limit
Texts ==
  { <<>>, hello_world, Rep(tts_truncate_over), Rep(tts_truncate_over + 1),
    Rep(MaxTextLen) }

\* output-path arguments tried
Paths ==
  { hello_wav, output_wav, missing_hello_wav }

\* command lines of tts.py: argv[0] is the script (TLA+ index 1)
Argvs ==
  { <<tts_py>> }
  \cup { <<tts_py, t>> : t \in Texts }
  \cup { <<tts_py, t, p>> : t \in Texts, p \in Paths }
  \cup { <<tts_py, t, p, extra_arg>> : t \in {hello_world, Rep(MaxTextLen)},
                                         p \in Paths }

\* lengths of the sample buffer the model may return to tts.py: a tie of the
\* two-decimal rounding that no double holds exactly, a tie a double holds
\* exactly, a non-tie, and a whole second
tts_SampleCounts ==
  { 120, 3000, 12345, 24000 }

\* lengths of the sample buffer the model may return to the batch generator,
\* for each of the six entries
gsn_SampleCounts ==
  { 3000, 12345 }

\* ---------------------------------------------------------------- helpers
SetMax(S) ==
  CHOOSE m \in S : \A x \in S : x <= m

\* os.path.join(a, b) for two components
os_path_join(a, b) ==
  IF Len(b) > 0 /\ b[1] = "/" THEN b
  ELSE IF Len(a) = 0 \/ a[Len(a)] = "/" THEN a \o b
  ELSE a \o sep \o b

\* directory part of a path; <<>> is the working directory
Dirname(p) ==
  LET idx == { j \in 1..Len(p) : p[j] = "/" }
  IN IF idx = {} THEN <<>> ELSE SubSeq(p, 1, SetMax(idx) - 1)

\* f"{scene_name}.wav"
WavName(scene_name) ==
  scene_name \o dot_wav

\* function f with key k bound to v
Put(f, k, v) ==
  [x \in DOMAIN f \cup {k} |-> IF x = k THEN v ELSE f[x]]

RECURSIVE GCD(_, _)
GCD(a, b) ==
  IF b = 0 THEN a ELSE GCD(b, a % b)

RECURSIVE IsPow2(_)
IsPow2(n) ==
  IF n = 1 THEN TRUE ELSE IF n % 2 = 1 THEN FALSE ELSE IsPow2(n \div 2)

\* duration = len(audio_numpy) / divisor: the quotient, kept exact as num/den
Quotient(num, den) ==
  [num |-> num, den |-> den]

\* f"{duration:.2f}": the decimal numeral with two fractional digits nearest
\* to the double, given as its value in hundredths.  The double is the
\* quotient rounded to binary: a quotient midway between two numerals is
\* formatted half-to-even when a double holds it exactly, and to either
\* neighbour otherwise (the binary rounding error decides).
Format2f(q) ==
  LET lo  == (100 * q.num) \div q.den
      rem == (100 * q.num) % q.den
  IN IF 2 * rem < q.den THEN {lo}
     ELSE IF 2 * rem > q.den THEN {lo + 1}
     ELSE IF IsPow2(q.den \div GCD(q.num, q.den))
          THEN {IF lo % 2 = 0 THEN lo ELSE lo + 1}
          ELSE {lo, lo + 1}

\* the console form of the text in the CLI
tts_shown_text(t) ==
  IF Len(t) > tts_truncate_over
  THEN SubSeq(t, 1, tts_truncate_keep) \o ellipsis
  ELSE t

\* the output path taken one argument too late
tts_output_file_late(av) ==
  IF Len(av) > 3 THEN av[3] ELSE output_wav

\* output_file = sys.argv[2] if len(sys.argv) > 2 else "output.wav"
tts_output_file(av) ==
  IF Len(av) > 2 THEN av[3] ELSE output_wav

\* ------------------------------------------------------------------ state
VARIABLES
  script,        \* "gsn" or "tts": the script this process executes
  argv,          \* sys.argv
  run,           \* number of the current run against this filesystem
  pc,            \* next statement of the script
  watermarker,   \* class bound to perth.PerthImplicitWatermarker
  modules,       \* modules imported so far, in import order
  tts,           \* the loaded model object, "None" before the load
  dirs,          \* directories of the filesystem
  files,         \* regular files: path -> [samples, samplerate]
  i,             \* number of SCENES entries the for loop has taken
  text,          \* local text
  output_file,   \* local output_file
  audio_numpy,   \* local audio_numpy: its length, 0 while unbound
  duration,      \* local duration (exact quotient)
  stdout,        \* lines printed
  exit_code,     \* -1 while running, else the exit status of the process
  traceback,     \* TRUE when the process died of an uncaught exception
  calls,         \* collaborator calls of this run, in order
  prev           \* what the previous run left: [completed, names]

vars ==
  << script, argv, run, pc, watermarker, modules, tts, dirs, files, i, text,
     output_file, audio_numpy, duration, stdout, exit_code, traceback, calls,
     prev >>

fsvars ==
  << dirs, files >>

locals ==
  << i, text, output_file, audio_numpy, duration >>

\* one collaborator call: n is the number of samples of a generate or write,
\* the number of directories created of a makedirs
Call(op, arg, n, ok) ==
  [op |-> op, arg |-> arg, n |-> n, ok |-> ok]

\* one printed line
Line(tag, arg, n) ==
  [tag |-> tag, arg |-> arg, n |-> n]

\* a file some other program left at a path
ForeignFile ==
  [samples |-> 0, samplerate |-> 0]

\* state of a freshly started interpreter
FreshProcess ==
  /\ pc = (IF script = "gsn" THEN "gsn_import_perth" ELSE "tts_import_sys")
  /\ watermarker = "PerthImplicitWatermarker"
  /\ modules = <<>>
  /\ tts = "None"
  /\ i = 0
  /\ text = <<>>
  /\ output_file = <<>>
  /\ audio_numpy = 0
  /\ duration = Quotient(0, 1)
  /\ stdout = <<>>
  /\ exit_code = -1
  /\ traceback = FALSE
  /\ calls = <<>>

Init ==
  /\ script \in {"gsn", "tts"}
  /\ argv \in IF script = "tts" THEN Argvs ELSE { <<tts_py>> }
  /\ run = 1
  /\ \/ dirs = { <<>> } /\ files = << >>
     \/ dirs = { <<>>, scene_audio } /\ files = << >>
     \/ dirs = { <<>> } /\ files = [p \in {scene_audio} |-> ForeignFile]
  /\ prev = [completed |-> FALSE, names |-> {}]
  /\ FreshProcess

\* an uncaught exception ends the process with a traceback and status 1
Raise ==
  /\ pc' = "raised"
  /\ exit_code' = 1
  /\ traceback' = TRUE

\* the filesystem after sf.write(path, <n samples>, samplerate=rate) returns
sf_write_ok(path, n, rate) ==
  /\ Dirname(path) \in dirs
  /\ path \notin dirs
  /\ files' = Put(files, path, [samples |-> n, samplerate |-> rate])
  /\ dirs' = dirs

\* the filesystem after sf.write(path, ...) raises: untouched, or the file
\* was already opened for writing and holds no samples
sf_write_raises(path, rate) ==
  /\ dirs' = dirs
  /\ \/ files' = files
     \/ /\ Dirname(path) \in dirs
        /\ path \notin dirs
        /\ files' = Put(files, path, [samples |-> 0, samplerate |-> rate])

\* ------------------------------------------ generate_scene_narrations.py
\* every import hoisted above the replacement of the watermarker
gsn_import_perth_hoisted ==
  /\ script = "gsn" /\ pc = "gsn_import_perth"
  /\ modules' = modules \o <<"perth", "chatterbox", "soundfile", "os">>
  /\ calls' = calls \o << Call("import", <<"perth">>, 0, TRUE),
                          Call("import", <<"chatterbox">>, 0, TRUE) >>
  /\ pc' = "gsn_patch"
  /\ UNCHANGED << script, argv, run, watermarker, tts, fsvars, locals, stdout,
                  exit_code, traceback, prev >>

\* import perth
gsn_import_perth ==
  /\ script = "gsn" /\ pc = "gsn_import_perth"
  /\ modules' = Append(modules, "perth")
  /\ calls' = Append(calls, Call("import", <<"perth">>, 0, TRUE))
  /\ pc' = "gsn_patch"
  /\ UNCHANGED << script, argv, run, watermarker, tts, fsvars, locals, stdout,
                  exit_code, traceback, prev >>

\* perth.PerthImplicitWatermarker = perth.DummyWatermarker
gsn_patch ==
  /\ script = "gsn" /\ pc = "gsn_patch"
  /\ watermarker' = "DummyWatermarker"
  /\ calls' = Append(calls, Call("patch", <<"perth">>, 0, TRUE))
  /\ pc' = "gsn_import_rest"
  /\ UNCHANGED << script, argv, run, modules, tts, fsvars, locals, stdout,
                  exit_code, traceback, prev >>

\* from chatterbox import ChatterboxTTS; import soundfile as sf; import os
gsn_import_rest ==
  /\ script = "gsn" /\ pc = "gsn_import_rest"
  /\ modules' = modules \o <<"chatterbox", "soundfile", "os">>
  /\ calls' = Append(calls, Call("import", <<"chatterbox">>, 0, TRUE))
  /\ pc' = "gsn_load"
  /\ UNCHANGED << script, argv, run, watermarker, tts, fsvars, locals, stdout,
                  exit_code, traceback, prev >>

\* main: print; tts = ChatterboxTTS.from_pretrained(device='cpu')
gsn_load ==
  /\ script = "gsn" /\ pc = "gsn_load"
  /\ stdout' = Append(stdout, Line("loading", <<>>, 0))
  /\ \/ /\ tts' = "ChatterboxTTS"
        /\ calls' = Append(calls, Call("from_pretrained", <<>>, 0, TRUE))
        /\ pc' = "gsn_makedirs"
        /\ UNCHANGED << exit_code, traceback >>
     \/ /\ calls' = Append(calls, Call("from_pretrained", <<>>, 0, FALSE))
        /\ Raise
        /\ UNCHANGED tts
  /\ UNCHANGED << script, argv, run, watermarker, modules, fsvars, locals,
                  prev >>

\* the directory is never created
gsn_makedirs_missing ==
  /\ script = "gsn" /\ pc = "gsn_makedirs"
  /\ pc' = "gsn_for"
  /\ UNCHANGED << script, argv, run, watermarker, modules, tts, fsvars, locals,
                  stdout, exit_code, traceback, calls, prev >>

\* os.makedirs(output_dir) without exist_ok: an existing directory raises
gsn_makedirs_strict ==
  /\ script = "gsn" /\ pc = "gsn_makedirs"
  /\ \/ /\ scene_audio \notin dirs
        /\ scene_audio \notin DOMAIN files
        /\ dirs' = dirs \cup {scene_audio}
        /\ calls' = Append(calls, Call("makedirs", scene_audio, 1, TRUE))
        /\ pc' = "gsn_for"
        /\ UNCHANGED << exit_code, traceback >>
     \/ /\ calls' = Append(calls, Call("makedirs", scene_audio, 0, FALSE))
        /\ Raise
        /\ UNCHANGED dirs
  /\ UNCHANGED << script, argv, run, watermarker, modules, tts, files, locals,
                  stdout, prev >>

\* output_dir = "scene_audio"; os.makedirs(output_dir, exist_ok=True)
gsn_makedirs ==
  /\ script = "gsn" /\ pc = "gsn_makedirs"
  /\ \/ /\ scene_audio \in dirs
        /\ calls' = Append(calls, Call("makedirs", scene_audio, 0, TRUE))
        /\ pc' = "gsn_for"
        /\ UNCHANGED << dirs, exit_code, traceback >>
     \/ /\ scene_audio \notin dirs
        /\ scene_audio \notin DOMAIN files
        /\ dirs' = dirs \cup {scene_audio}
        /\ calls' = Append(calls, Call("makedirs", scene_audio, 1, TRUE))
        /\ pc' = "gsn_for"
        /\ UNCHANGED << exit_code, traceback >>
     \/ /\ scene_audio \notin dirs
        /\ calls' = Append(calls, Call("makedirs", scene_audio, 0, FALSE))
        /\ Raise
        /\ UNCHANGED dirs
  /\ UNCHANGED << script, argv, run, watermarker, modules, tts, files, locals,
                  stdout, prev >>

\* for scene_name, text in SCENES.items(): the two prints of the loop head,
\* or the loop is exhausted
gsn_for ==
  /\ script = "gsn" /\ pc = "gsn_for"
  /\ IF i < Len(SCENES)
     THEN /\ i' = i + 1
          /\ text' = SCENES[i + 1].text
          /\ stdout' = stdout \o
               << Line("generating", WavName(SCENES[i + 1].name), 0),
                  Line("text", SCENES[i + 1].text, 0) >>
          /\ pc' = "gsn_generate"
     ELSE /\ pc' = "gsn_summary"
          /\ UNCHANGED << i, text, stdout >>
  /\ UNCHANGED << script, argv, run, watermarker, modules, tts, fsvars,
                  output_file, audio_numpy, duration, exit_code, traceback,
                  calls, prev >>

\* audio_tensor = tts.generate(text=text); audio_numpy = ...numpy()
gsn_generate ==
  /\ script = "gsn" /\ pc = "gsn_generate"
  /\ \/ \E n \in gsn_SampleCounts :
          /\ audio_numpy' = n
          /\ calls' = Append(calls, Call("generate", text, n, TRUE))
          /\ pc' = "gsn_write"
          /\ UNCHANGED << exit_code, traceback >>
     \/ /\ calls' = Append(calls, Call("generate", text, 0, FALSE))
        /\ Raise
        /\ UNCHANGED audio_numpy
  /\ UNCHANGED << script, argv, run, watermarker, modules, tts, fsvars, i,
                  text, output_file, duration, stdout, prev >>

\* every entry written under one fixed name
gsn_output_file_fixed(scene_name) ==
  os_path_join(scene_audio, output_wav)

\* output_file = os.path.join(output_dir, f"{scene_name}.wav")
gsn_output_file(scene_name) ==
  os_path_join(scene_audio, WavName(scene_name))

\* a failed write is swallowed and the loop goes on with the next entry
gsn_write_continue ==
  /\ script = "gsn" /\ pc = "gsn_write"
  /\ output_file' = gsn_output_file(SCENES[i].name)
  /\ \/ /\ sf_write_ok(output_file', audio_numpy, gsn_samplerate)
        /\ calls' = Append(calls, Call("write", output_file', audio_numpy, TRUE))
        /\ pc' = "gsn_report"
     \/ /\ sf_write_raises(output_file', gsn_samplerate)
        /\ calls' = Append(calls, Call("write", output_file', audio_numpy, FALSE))
        /\ pc' = "gsn_for"
  /\ UNCHANGED << script, argv, run, watermarker, modules, tts, i, text,
                  audio_numpy, duration, stdout, exit_code, traceback, prev >>

\* output_file = ...; sf.write(output_file, audio_numpy, samplerate=24000)
gsn_write ==
  /\ script = "gsn" /\ pc = "gsn_write"
  /\ output_file' = gsn_output_file(SCENES[i].name)
  /\ \/ /\ sf_write_ok(output_file', audio_numpy, gsn_samplerate)
        /\ calls' = Append(calls, Call("write", output_file', audio_numpy, TRUE))
        /\ pc' = "gsn_report"
        /\ UNCHANGED << exit_code, traceback >>
     \/ /\ sf_write_raises(output_file', gsn_samplerate)
        /\ calls' = Append(calls, Call("write", output_file', audio_numpy, FALSE))
        /\ Raise
  /\ UNCHANGED << script, argv, run, watermarker, modules, tts, i, text,
                  audio_numpy, duration, stdout, prev >>

\* the duration taken at the rate of a different sampling standard
gsn_report_other_rate ==
  /\ script = "gsn" /\ pc = "gsn_report"
  /\ duration' = Quotient(audio_numpy, 22050)
  /\ \E c \in Format2f(duration') :
       stdout' = Append(stdout, Line("duration", <<>>, c))
  /\ pc' = "gsn_for"
  /\ UNCHANGED << script, argv, run, watermarker, modules, tts, fsvars, i,
                  text, output_file, audio_numpy, exit_code, traceback, calls,
                  prev >>

\* duration = len(audio_numpy) / 24000; print(f"   ... {duration:.2f}s")
gsn_report ==
  /\ script = "gsn" /\ pc = "gsn_report"
  /\ duration' = Quotient(audio_numpy, gsn_divisor)
  /\ \E c \in Format2f(duration') :
       stdout' = Append(stdout, Line("duration", <<>>, c))
  /\ pc' = "gsn_for"
  /\ UNCHANGED << script, argv, run, watermarker, modules, tts, fsvars, i,
                  text, output_file, audio_numpy, exit_code, traceback, calls,
                  prev >>

\* the closing prints: the directory, one line per key of SCENES, the hint
gsn_summary ==
  /\ script = "gsn" /\ pc = "gsn_summary"
  /\ stdout' = stdout \o << Line("all_generated", scene_audio, 0) >>
                 \o [k \in 1..Len(SCENES) |->
                       Line("created", WavName(SCENES[k].name), 0)]
                 \o << Line("next_step", scene_audio, 0) >>
  /\ pc' = "done"
  /\ exit_code' = 0
  /\ UNCHANGED << script, argv, run, watermarker, modules, tts, fsvars,
                  locals, traceback, calls, prev >>

\* ------------------------------------------------------------------ tts.py
\* import sys
tts_import_sys ==
  /\ script = "tts" /\ pc = "tts_import_sys"
  /\ modules' = Append(modules, "sys")
  /\ calls' = Append(calls, Call("import", <<"sys">>, 0, TRUE))
  /\ pc' = "tts_import_perth"
  /\ UNCHANGED << script, argv, run, watermarker, tts, fsvars, locals, stdout,
                  exit_code, traceback, prev >>

\* import perth
tts_import_perth ==
  /\ script = "tts" /\ pc = "tts_import_perth"
  /\ modules' = Append(modules, "perth")
  /\ calls' = Append(calls, Call("import", <<"perth">>, 0, TRUE))
  /\ pc' = "tts_patch"
  /\ UNCHANGED << script, argv, run, watermarker, tts, fsvars, locals, stdout,
                  exit_code, traceback, prev >>

\* perth.PerthImplicitWatermarker = perth.DummyWatermarker
tts_patch ==
  /\ script = "tts" /\ pc = "tts_patch"
  /\ watermarker' = "DummyWatermarker"
  /\ calls' = Append(calls, Call("patch", <<"perth">>, 0, TRUE))
  /\ pc' = "tts_import_rest"
  /\ UNCHANGED << script, argv, run, modules, tts, fsvars, locals, stdout,
                  exit_code, traceback, prev >>

\* from chatterbox import ChatterboxTTS; import soundfile as sf
tts_import_rest ==
  /\ script = "tts" /\ pc = "tts_import_rest"
  /\ modules' = modules \o <<"chatterbox", "soundfile">>
  /\ calls' = Append(calls, Call("import", <<"chatterbox">>, 0, TRUE))
  /\ pc' = "tts_args"
  /\ UNCHANGED << script, argv, run, watermarker, tts, fsvars, locals, stdout,
                  exit_code, traceback, prev >>

\* the argument check off by one: a missing text reaches sys.argv[1]
tts_args_off_by_one ==
  /\ script = "tts" /\ pc = "tts_args"
  /\ IF Len(argv) < 1
     THEN /\ stdout' = Append(stdout, Line("usage", <<>>, 0))
          /\ pc' = "exited"
          /\ exit_code' = 1
          /\ UNCHANGED << text, output_file, traceback >>
     ELSE IF Len(argv) < 2
     THEN /\ Raise
          /\ UNCHANGED << text, output_file, stdout >>
     ELSE /\ text' = argv[2]
          /\ output_file' = tts_output_file(argv)
          /\ pc' = "tts_load"
          /\ UNCHANGED << stdout, exit_code, traceback >>
  /\ UNCHANGED << script, argv, run, watermarker, modules, tts, fsvars, i,
                  audio_numpy, duration, calls, prev >>

\* main: the argument check with its usage exit, then text and output_file
tts_args ==
  /\ script = "tts" /\ pc = "tts_args"
  /\ IF Len(argv) < 2
     THEN /\ stdout' = Append(stdout, Line("usage", <<>>, 0))
          /\ pc' = "exited"
          /\ exit_code' = 1
          /\ UNCHANGED << text, output_file >>
     ELSE /\ text' = argv[2]
          /\ output_file' = tts_output_file(argv)
          /\ pc' = "tts_load"
          /\ UNCHANGED << stdout, exit_code >>
  /\ UNCHANGED << script, argv, run, watermarker, modules, tts, fsvars, i,
                  audio_numpy, duration, traceback, calls, prev >>

\* print; tts = ChatterboxTTS.from_pretrained(device='cpu')
tts_load ==
  /\ script = "tts" /\ pc = "tts_load"
  /\ stdout' = Append(stdout, Line("loading", <<>>, 0))
  /\ \/ /\ tts' = "ChatterboxTTS"
        /\ calls' = Append(calls, Call("from_pretrained", <<>>, 0, TRUE))
        /\ pc' = "tts_announce"
        /\ UNCHANGED << exit_code, traceback >>
     \/ /\ calls' = Append(calls, Call("from_pretrained", <<>>, 0, FALSE))
        /\ Raise
        /\ UNCHANGED tts
  /\ UNCHANGED << script, argv, run, watermarker, modules, fsvars, locals,
                  prev >>

\* the "Generating" line and the text line, shortened over 80 characters
tts_announce ==
  /\ script = "tts" /\ pc = "tts_announce"
  /\ stdout' = stdout \o << Line("generating", output_file, 0),
                            Line("text", tts_shown_text(text), 0) >>
  /\ pc' = "tts_generate"
  /\ UNCHANGED << script, argv, run, watermarker, modules, tts, fsvars,
                  locals, exit_code, traceback, calls, prev >>

\* the model is given the shortened console form of the text
tts_generate_shortened ==
  /\ script = "tts" /\ pc = "tts_generate"
  /\ \/ \E n \in tts_SampleCounts :
          /\ audio_numpy' = n
          /\ calls' = Append(calls, Call("generate", tts_shown_text(text), n, TRUE))
          /\ pc' = "tts_write"
          /\ UNCHANGED << exit_code, traceback >>
     \/ /\ calls' = Append(calls, Call("generate", tts_shown_text(text), 0, FALSE))
        /\ Raise
        /\ UNCHANGED audio_numpy
  /\ UNCHANGED << script, argv, run, watermarker, modules, tts, fsvars, i,
                  text, output_file, duration, stdout, prev >>

\* audio_tensor = tts.generate(text=text); audio_numpy = ...numpy()
tts_generate ==
  /\ script = "tts" /\ pc = "tts_generate"
  /\ \/ \E n \in tts_SampleCounts :
          /\ audio_numpy' = n
          /\ calls' = Append(calls, Call("generate", text, n, TRUE))
          /\ pc' = "tts_write"
          /\ UNCHANGED << exit_code, traceback >>
     \/ /\ calls' = Append(calls, Call("generate", text, 0, FALSE))
        /\ Raise
        /\ UNCHANGED audio_numpy
  /\ UNCHANGED << script, argv, run, watermarker, modules, tts, fsvars, i,
                  text, output_file, duration, stdout, prev >>

\* sf.write(output_file, audio_numpy, samplerate=24000)
tts_write ==
  /\ script = "tts" /\ pc = "tts_write"
  /\ \/ /\ sf_write_ok(output_file, audio_numpy, tts_samplerate)
        /\ calls' = Append(calls, Call("write", output_file, audio_numpy, TRUE))
        /\ pc' = "tts_report"
        /\ UNCHANGED << exit_code, traceback >>
     \/ /\ sf_write_raises(output_file, tts_samplerate)
        /\ calls' = Append(calls, Call("write", output_file, audio_numpy, FALSE))
        /\ Raise
  /\ UNCHANGED << script, argv, run, watermarker, modules, tts, locals,
                  stdout, prev >>

\* duration = len(audio_numpy) / 24000; the "Generated" and "Play" lines
tts_report ==
  /\ script = "tts" /\ pc = "tts_report"
  /\ duration' = Quotient(audio_numpy, tts_divisor)
  /\ \E c \in Format2f(duration') :
       stdout' = stdout \o << Line("duration", output_file, c),
                              Line("play", output_file, 0) >>
  /\ pc' = "done"
  /\ exit_code' = 0
  /\ UNCHANGED << script, argv, run, watermarker, modules, tts, fsvars, i,
                  text, output_file, audio_numpy, traceback, calls, prev >>

\* ------------------------------------------------------------- the system
Terminated ==
  pc \in {"done", "exited", "raised"}

\* the same command is started again: a new interpreter, the old filesystem
Restart ==
  /\ Terminated
  /\ run < MaxRuns
  /\ run' = run + 1
  /\ prev' = [completed |-> pc = "done", names |-> DOMAIN files]
  /\ pc' = (IF script = "gsn" THEN "gsn_import_perth" ELSE "tts_import_sys")
  /\ watermarker' = "PerthImplicitWatermarker"
  /\ modules' = <<>>
  /\ tts' = "None"
  /\ i' = 0
  /\ text' = <<>>
  /\ output_file' = <<>>
  /\ audio_numpy' = 0
  /\ duration' = Quotient(0, 1)
  /\ stdout' = <<>>
  /\ exit_code' = -1
  /\ traceback' = FALSE
  /\ calls' = <<>>
  /\ UNCHANGED << script, argv, fsvars >>

Next ==
  \/ gsn_import_perth
  \/ gsn_patch
  \/ gsn_import_rest
  \/ gsn_load
  \/ gsn_makedirs
  \/ gsn_for
  \/ gsn_generate
  \/ gsn_write
  \/ gsn_report
  \/ gsn_summary
  \/ tts_import_sys
  \/ tts_import_perth
  \/ tts_patch
  \/ tts_import_rest
  \/ tts_args
  \/ tts_load
  \/ tts_announce
  \/ tts_generate
  \/ tts_write
  \/ tts_report
  \/ Restart

Spec ==
  Init /\ [][Next]_vars

TypeOK ==
  /\ script \in {"gsn", "tts"}
  /\ run \in 1..MaxRuns
  /\ watermarker \in {"PerthImplicitWatermarker", "DummyWatermarker"}
  /\ tts \in {"None", "ChatterboxTTS"}
  /\ i \in 0..Len(SCENES)
  /\ exit_code \in {-1, 0, 1}
  /\ traceback \in BOOLEAN

\* ================================================================ claims
\* the paths the batch generator is to write, in SCENES order, spelled out
ExpectedSceneFiles ==
  << <<"s","c","e","n","e","_","a","u","d","i","o","/","t","i","t","l","e",".","w","a","v">>,
     <<"s","c","e","n","e","_","a","u","d","i","o","/","p","r","o","b","l","e","m",".","w","a","v">>,
     <<"s","c","e","n","e","_","a","u","d","i","o","/","s","o","l","u","t","i","o","n",".","w","a","v">>,
     <<"s","c","e","n","e","_","a","u","d","i","o","/","d","e","m","o",".","w","a","v">>,
     <<"s","c","e","n","e","_","a","u","d","i","o","/","b","e","n","e","f","i","t","s",".","w","a","v">>,
     <<"s","c","e","n","e","_","a","u","d","i","o","/","c","t","a",".","w","a","v">> >>

ExpectedNames ==
  { ExpectedSceneFiles[k] : k \in 1..Len(ExpectedSceneFiles) }

Range(s) ==
  { s[k] : k \in 1..Len(s) }

\* the calls of this run with one of the given operations, in order
CallsOf(ops) ==
  SelectSeq(calls, LAMBDA c : c.op \in ops)

\* paths of the sf.write calls of this run that returned, in order
Written ==
  [k \in 1..Len(SelectSeq(calls, LAMBDA c : c.op = "write" /\ c.ok)) |->
     SelectSeq(calls, LAMBDA c : c.op = "write" /\ c.ok)[k].arg]

\* C1: when the batch generator runs to completion, the files it wrote are
\* exactly scene_audio/<scene-name>.wav for the keys of SCENES, each once and
\* in SCENES order, and a directory that started empty or absent then holds
\* exactly those files.
C1_OneFilePerScene ==
  (script = "gsn" /\ pc = "done") =>
     /\ Written = ExpectedSceneFiles
     /\ Cardinality(Range(Written)) = Len(SCENES)
     /\ Len(CallsOf({"write"})) = Len(SCENES)
     /\ (run = 1 => DOMAIN files = ExpectedNames)

C1_Witness ==
  /\ script = "gsn" /\ pc = "done" /\ run = 1
  /\ Len(Written) = 6

\* C2: tts.py with no argument prints the usage text and exits with status 1
\* without loading the model, generating or writing.
C2_UsageExit ==
  (script = "tts" /\ Len(argv) < 2) =>
     /\ pc \in {"tts_import_sys", "tts_import_perth", "tts_patch",
                "tts_import_rest", "tts_args", "exited"}
     /\ tts = "None"
     /\ CallsOf({"from_pretrained", "generate", "write"}) = <<>>
     /\ DOMAIN files \subseteq {scene_audio}
     /\ (pc = "exited" =>
           /\ exit_code = 1
           /\ ~traceback
           /\ stdout = << Line("usage", <<>>, 0) >>)
     /\ (pc # "exited" => exit_code = -1 /\ stdout = <<>>)

C2_Witness ==
  script = "tts" /\ Len(argv) = 1 /\ pc = "exited" /\ exit_code = 1

\* the path tts.py is to write for a command line
C3_Target ==
  IF Len(argv) = 2 THEN <<"o","u","t","p","u","t",".","w","a","v">>
  ELSE argv[3]

\* C3: tts.py with a text argument writes at output.wav when no path is given
\* and at the given second argument otherwise, and at no other path.
C3_OutputPath ==
  (script = "tts" /\ Len(argv) >= 2) =>
     /\ \A k \in 1..Len(calls) :
          calls[k].op = "write" => calls[k].arg = C3_Target
     /\ DOMAIN files \subseteq {scene_audio, C3_Target}
     /\ (pc = "done" => /\ Written = << C3_Target >>
                        /\ C3_Target \in DOMAIN files)

C3_Witness ==
  /\ script = "tts" /\ pc = "done"
  /\ Len(argv) = 3 /\ argv[3] = hello_wav
  /\ hello_wav \in DOMAIN files

\* C4: in the batch generator a failed generate or write for the k-th entry
\* ends the run at once: it is the last call, it was attempted once, the
\* summary is not printed, and the writes that returned are those of the
\* entries 1..k-1 in SCENES order.
C4_FailureIsFatal ==
  script = "gsn" =>
    \A j \in 1..Len(calls) :
      (calls[j].op \in {"generate", "write"} /\ ~calls[j].ok) =>
         /\ j = Len(calls)
         /\ pc = "raised" /\ exit_code = 1 /\ traceback
         /\ Len(CallsOf({"generate"})) = i
         /\ Len(CallsOf({"write"})) \in {i - 1, i}
         /\ Written = SubSeq(ExpectedSceneFiles, 1, i - 1)
         /\ \A k \in 1..Len(stdout) : stdout[k].tag # "all_generated"

C4_Witness ==
  /\ script = "gsn" /\ pc = "raised" /\ i = 3
  /\ calls[Len(calls)].op = "write" /\ ~calls[Len(calls)].ok
  /\ Len(Written) = 2

\* C5: the batch generator loads the model once, then takes the entries in
\* SCENES order, each entry's generate followed by its own write before the
\* next entry's generate.
C5_SequentialInOrder ==
  script = "gsn" =>
    LET M == CallsOf({"from_pretrained", "generate", "write"})
    IN \A j \in 1..Len(M) :
         /\ (j = 1) = (M[j].op = "from_pretrained")
         /\ (j > 1 /\ j % 2 = 0) =>
              /\ M[j].op = "generate"
              /\ M[j].arg = SCENES[j \div 2].text
         /\ (j > 1 /\ j % 2 = 1) =>
              /\ M[j].op = "write"
              /\ M[j].arg = ExpectedSceneFiles[(j - 1) \div 2]
              /\ M[j].n = M[j - 1].n
         /\ j < Len(M) => M[j].ok

C5_Witness ==
  /\ script = "gsn" /\ pc = "done"
  /\ Len(CallsOf({"from_pretrained"})) = 1
  /\ Len(CallsOf({"generate"})) = 6

\* C6: in the batch generator the directory scene_audio exists from before
\* the first entry is generated, in every state in which a generate or a
\* write has been issued, whether the run found or created it; every file
\* the run wrote lies directly inside it.
C6_DirectoryBeforeWrite ==
  script = "gsn" =>
     /\ (pc \in {"gsn_for", "gsn_generate", "gsn_write", "gsn_report",
                 "gsn_summary", "done"}
         \/ CallsOf({"generate", "write"}) # <<>>)
          => <<"s","c","e","n","e","_","a","u","d","i","o">> \in dirs
     /\ \A k \in 1..Len(Written) :
          /\ Dirname(Written[k]) = <<"s","c","e","n","e","_","a","u","d","i","o">>
          /\ Written[k] \in DOMAIN files

C6_Witness ==
  /\ script = "gsn" /\ run = 1
  /\ \E k \in 1..Len(calls) : calls[k].op = "makedirs" /\ calls[k].n = 1
  /\ Len(Written) >= 1

\* C7: a second run of the batch generator over the files of a completed
\* earlier run accepts the directory, skips no entry, writes every
\* <scene-name>.wav again over the old file, and leaves the same set of file
\* names as the earlier run.
C7_RerunOverwrites ==
  (script = "gsn" /\ run >= 2 /\ prev.completed) =>
     /\ prev.names = ExpectedNames
     /\ DOMAIN files = prev.names
     /\ \A k \in 1..Len(calls) : calls[k].op = "makedirs" => calls[k].ok
     /\ \A k \in 1..Len(calls) :
          (calls[k].op = "write" /\ calls[k].ok) =>
             /\ calls[k].arg \in prev.names
             /\ (\A m \in (k + 1)..Len(calls) : calls[m].arg # calls[k].arg)
                   => files[calls[k].arg].samples = calls[k].n
     /\ (pc = "gsn_for" => Len(Written) = i)
     /\ (pc = "done" => Written = ExpectedSceneFiles)

C7_Witness ==
  /\ script = "gsn" /\ run = 2 /\ prev.completed /\ pc = "done"
  /\ Len(Written) = 6

\* the duration lines printed so far
DurationLines ==
  SelectSeq(stdout, LAMBDA l : l.tag = "duration")

\* C8 as stated: the duration printed for an item equals the number of
\* samples written to its file divided by 24000, and the file is written at
\* the rate 24000.
C8_ReportedIsExactQuotient ==
  \A k \in 1..Len(DurationLines) :
     LET l == DurationLines[k]
     IN /\ k <= Len(Written)
        /\ Written[k] \in DOMAIN files
        /\ files[Written[k]].samplerate = 24000
        /\ l.n * 24000 = 100 * files[Written[k]].samples

\* C8 amended: the duration computed for an item is exactly the number of
\* samples written to its file divided by 24000, the duration printed is that
\* quotient rounded to two decimals (within half a hundredth of it), and the
\* file is written at the same rate 24000.
C8_ReportedIsRoundedQuotient ==
  /\ \A k \in 1..Len(DurationLines) :
       LET l == DurationLines[k]
           d == 100 * files[Written[k]].samples - l.n * 24000
       IN /\ k <= Len(Written)
          /\ Written[k] \in DOMAIN files
          /\ files[Written[k]].samplerate = 24000
          /\ 2 * d <= 24000 /\ 2 * d >= -24000
  /\ (DurationLines # <<>> /\ pc \in {"gsn_for", "gsn_generate", "gsn_write",
                                     "gsn_summary", "done"}) =>
       /\ duration.den = 24000
       /\ duration.num = files[Written[Len(DurationLines)]].samples

C8_Witness ==
  /\ pc = "done"
  /\ \E k \in 1..Len(DurationLines) :
       /\ files[Written[k]].samples = 12345
       /\ DurationLines[k].n = 51

\* C9: in both scripts the watermarker is replaced before the TTS library is
\* imported, before the model is loaded and before any generate; it is
\* replaced once, and stays replaced for the rest of the process, the usage
\* exit of tts.py included.
C9_PatchFirst ==
  LET P == { k \in 1..Len(calls) : calls[k].op = "patch" }
      U == { k \in 1..Len(calls) :
               \/ calls[k].op \in {"from_pretrained", "generate"}
               \/ calls[k].op = "import" /\ calls[k].arg = <<"chatterbox">> }
  IN /\ Cardinality(P) <= 1
     /\ \A u \in U : \E p \in P : p < u
     /\ ("chatterbox" \in Range(modules) \/ tts # "None" \/ Terminated)
          => Cardinality(P) = 1
     /\ (P # {}) = (watermarker = "DummyWatermarker")
     /\ Cardinality({ k \in 1..Len(modules) : modules[k] = "chatterbox" }) <= 1

C9_Witness ==
  /\ script = "tts" /\ Len(argv) = 1 /\ pc = "exited"
  /\ watermarker = "DummyWatermarker"

\* C10: tts.py with a text argument invokes the model once and then writes
\* once; the text given to the model is sys.argv[1] as it stands, the
\* shortening to 77 characters and "..." shows on the console only, and
\* arguments after the second change nothing.
C10_TextUnchanged ==
  (script = "tts" /\ Len(argv) >= 2) =>
     LET G == CallsOf({"generate"})
         W == CallsOf({"write"})
         M == CallsOf({"generate", "write"})
         T == SelectSeq(stdout, LAMBDA l : l.tag = "text")
     IN /\ Len(G) <= 1 /\ Len(W) <= 1
        /\ \A k \in 1..Len(G) : G[k].arg = argv[2]
        /\ \A k \in 1..Len(M) : (k = 1) = (M[k].op = "generate")
        /\ \A k \in 1..Len(W) :
             W[k].arg = (IF Len(argv) = 2 THEN output_wav ELSE argv[3])
        /\ \A k \in 1..Len(T) :
             T[k].arg = (IF Len(argv[2]) > 80
                         THEN SubSeq(argv[2], 1, 77) \o <<".", ".", ".">>
                         ELSE argv[2])
        /\ pc = "done" => /\ Len(G) = 1 /\ Len(W) = 1 /\ Len(T) = 1
                          /\ G[1].ok /\ W[1].ok /\ W[1].n = G[1].n
                          /\ text = argv[2]

C10_Witness ==
  /\ script = "tts" /\ pc = "done"
  /\ Len(argv) = 4 /\ Len(argv[2]) > 80
  /\ CallsOf({"generate"})[1].arg = argv[2]
====
